---- MODULE Spec2Model ----
(***************************************************************************)
(* The chat page of the mini-program (miniprogram/pages/chat/index.js):    *)
(* the page's data, the device's key-value storage, and the wx.request     *)
(* calls in flight with the closures their callbacks run in.               *)
(*                                                                         *)
(* JavaScript strings are sequences of one-character strings; a JavaScript *)
(* value that need not be a string (a message's content, a response body)  *)
(* is a record tagged with its type.                                       *)
(***************************************************************************)
EXTENDS Integers, Sequences, FiniteSets, TLC

VARIABLES
    storage,    \* the value stored under the key 'user_id' ("" when absent)
    writes,     \* history: for each wx.setStorageSync that stored a value, the
                \* value of reloaded at the time
    reloaded,   \* history: the current page instance is not the first one
    phase,      \* "constructed": onLoad not yet run; "ready": onLoad returned or threw
    data,       \* this.data of the current page instance
    inflight,   \* the wx.request calls not yet settled, as their callbacks' closures
    issued,     \* history: wx.request calls made by the current page instance
    origin,     \* history: for each message, the id of the request it belongs to
    threw,      \* history: handlers of the current page instance that ended by throwing
    last        \* history: the handler that ran last, and what it was given

vars == <<storage, writes, reloaded, phase, data, inflight, issued, origin, threw, last>>

----------------------------------------------------------------------------
(* Bounds *)

MaxSends == 2   \* wx.request calls per page instance

----------------------------------------------------------------------------
(* Values *)

\* The drafts the user types: empty, whitespace only, plain, and padded.
Drafts == { <<>>, <<" ">>, <<"a">>, <<" ", "a", " ">> }

\* The characters String.prototype.trim removes (those the drafts use).
WhiteSpace == {" ", "\t", "\n"}

\* Math.random().toString(36).slice(2) prefixed by 'user_': two possible draws.
UserIds == {"user_p", "user_q"}

\* uuidv4(): two possible draws.
SessionIds == {"s1", "s2"}

\* The answers the backend gives.
Answers == { <<"X">> }

Str(s) == [type |-> "string", val |-> s]
Undefined == [type |-> "undefined", val |-> <<>>]

\* A parsed response body: an object (of which only the answer property is
\* read), or null.
Obj(answer) == [type |-> "object", answer |-> answer]
Null == [type |-> "null", answer |-> Undefined]

\* What wx.request hands to its success callback: any response the server
\* sent, whatever its status code.
Responses ==
    { [statusCode |-> 200, data |-> Obj(Str(a))] : a \in Answers }
    \cup { [statusCode |-> 500, data |-> Obj(Undefined)],
           [statusCode |-> 200, data |-> Null] }

NoRes == [statusCode |-> 0, data |-> Obj(Undefined)]

\* '网络错误，请稍后重试。'
FailText == <<"network error, please retry later">>

----------------------------------------------------------------------------
(* Pure functions *)

RECURSIVE trimStart(_)
trimStart(s) ==
    IF s # <<>> /\ Head(s) \in WhiteSpace THEN trimStart(Tail(s)) ELSE s

RECURSIVE trimEnd(_)
trimEnd(s) ==
    IF s # <<>> /\ s[Len(s)] \in WhiteSpace
    THEN trimEnd(SubSeq(s, 1, Len(s) - 1))
    ELSE s

trim(s) == trimEnd(trimStart(s))

\* !input.trim(): the empty string is the only falsy string.
IsNoOpNoTrim(input) == input = <<>>
IsNoOp(input) == trim(input) = <<>>

\* { role: 'user', content: input }
UserMessageTrimmed(input) == [role |-> "user", content |-> Str(trim(input))]
UserMessage(input) == [role |-> "user", content |-> Str(input)]

\* data: { question: input, user_id, session_id }
RequestDataTrimmed(input, user_id, session_id) ==
    [question |-> trim(input), user_id |-> user_id, session_id |-> session_id]
RequestData(input, user_id, session_id) ==
    [question |-> input, user_id |-> user_id, session_id |-> session_id]

\* !user_id: getStorageSync gives '' for an absent key.
NeedsNewIdAlways(stored) == TRUE
NeedsNewId(stored) == stored = ""

\* [...this.data.messages, { role: 'assistant', content: answer }]
SuccessMessagesStale(current, closure, answer) ==
    Append(closure.messages, [role |-> "assistant", content |-> answer])
SuccessMessagesFixedText(current, closure, answer) ==
    Append(current, [role |-> "assistant", content |-> Str(FailText)])
SuccessMessages(current, closure, answer) ==
    Append(current, [role |-> "assistant", content |-> answer])

\* [...this.data.messages, { role: 'assistant', content: '网络错误，请稍后重试。' }]
FailMessagesStale(current, closure) ==
    Append(closure.messages, [role |-> "assistant", content |-> Str(FailText)])
FailMessages(current, closure) ==
    Append(current, [role |-> "assistant", content |-> Str(FailText)])

----------------------------------------------------------------------------
(* The page *)

\* data: { user_id: '', session_id: '', messages: [], input: '' }
InitialData ==
    [user_id |-> "", session_id |-> "", messages |-> <<>>, input |-> <<>>]

Ran(op, id, res) == [op |-> op, id |-> id, res |-> res]

Init ==
    /\ storage = ""
    /\ writes = <<>>
    /\ reloaded = FALSE
    /\ phase = "constructed"
    /\ data = InitialData
    /\ inflight = {}
    /\ issued = 0
    /\ origin = <<>>
    /\ threw = {}
    /\ last = Ran("Page", 0, NoRes)

\* The page is opened again: a new page instance with the initial data.  The
\* callbacks of the old instance's requests act on the old instance's data.
Page ==
    /\ phase = "ready"
    /\ reloaded' = TRUE
    /\ phase' = "constructed"
    /\ data' = InitialData
    /\ inflight' = {}
    /\ issued' = 0
    /\ origin' = <<>>
    /\ threw' = {}
    /\ last' = Ran("Page", 0, NoRes)
    /\ UNCHANGED <<storage, writes>>

\* onLoad, ending by the exception of a storage call that failed.
onLoadThrows ==
    /\ threw' = threw \cup {"onLoad"}
    /\ UNCHANGED <<storage, writes, data>>

onLoad(getFails, setFails, generated, uuid) ==
    IF getFails
    THEN onLoadThrows
    ELSE IF NeedsNewId(storage)
         THEN IF setFails
              THEN onLoadThrows
              ELSE /\ storage' = generated
                   /\ writes' = Append(writes, reloaded)
                   /\ data' = [data EXCEPT !.user_id = generated,
                                           !.session_id = uuid]
                   /\ UNCHANGED threw
         ELSE /\ data' = [data EXCEPT !.user_id = storage, !.session_id = uuid]
              /\ UNCHANGED <<storage, writes, threw>>

OnLoad ==
    /\ phase = "constructed"
    /\ \E getFails \in BOOLEAN, setFails \in BOOLEAN,
          generated \in UserIds, uuid \in SessionIds :
          onLoad(getFails, setFails, generated, uuid)
    /\ phase' = "ready"
    /\ last' = Ran("onLoad", 0, NoRes)
    /\ UNCHANGED <<reloaded, inflight, issued, origin>>

\* onInput(e), e.detail.value = value
OnInput ==
    /\ phase = "ready"
    /\ \E value \in Drafts :
          data' = [data EXCEPT !.input = value]
    /\ last' = Ran("onInput", 0, NoRes)
    /\ UNCHANGED <<storage, writes, reloaded, phase, inflight, issued, origin, threw>>

\* The closure of the callbacks of the request sendMsg makes: the constants
\* of its line 26, and the request's data.
Closure(id) ==
    [id |-> id,
     input |-> data.input,
     user_id |-> data.user_id,
     session_id |-> data.session_id,
     messages |-> data.messages,
     request |-> RequestData(data.input, data.user_id, data.session_id)]

sendMsg ==
    IF IsNoOp(data.input)
    THEN UNCHANGED <<data, inflight, issued, origin>>
    ELSE /\ issued < MaxSends
         /\ data' = [data EXCEPT
                !.messages = Append(data.messages, UserMessage(data.input)),
                !.input = <<>>]
         /\ inflight' = inflight \cup {Closure(issued + 1)}
         /\ issued' = issued + 1
         /\ origin' = Append(origin, issued + 1)

SendMsgSerialized ==
    /\ phase = "ready"
    /\ inflight = {}
    /\ sendMsg
    /\ last' = Ran("sendMsg", 0, NoRes)
    /\ UNCHANGED <<storage, writes, reloaded, phase, threw>>

SendMsg ==
    /\ phase = "ready"
    /\ sendMsg
    /\ last' = Ran("sendMsg", 0, NoRes)
    /\ UNCHANGED <<storage, writes, reloaded, phase, threw>>

\* success: (res) => { ... } of the request with closure c
success(c, res) ==
    IF res.data.type = "null"
    THEN \* res.data.answer throws a TypeError
         /\ threw' = threw \cup {"success"}
         /\ UNCHANGED <<data, origin>>
    ELSE /\ data' = [data EXCEPT
                !.messages = SuccessMessages(data.messages, c, res.data.answer)]
         /\ origin' = Append(origin, c.id)
         /\ UNCHANGED threw

Success ==
    /\ \E c \in inflight, res \in Responses :
          /\ success(c, res)
          /\ inflight' = inflight \ {c}
          /\ last' = Ran("success", c.id, res)
    /\ UNCHANGED <<storage, writes, reloaded, phase, issued>>

\* fail: () => { ... } of the request with closure c
fail(c) ==
    /\ data' = [data EXCEPT !.messages = FailMessages(data.messages, c)]
    /\ origin' = Append(origin, c.id)

Fail ==
    /\ \E c \in inflight :
          /\ fail(c)
          /\ inflight' = inflight \ {c}
          /\ last' = Ran("fail", c.id, NoRes)
    /\ UNCHANGED <<storage, writes, reloaded, phase, issued, threw>>

Next == Page \/ OnLoad \/ OnInput \/ SendMsg \/ Success \/ Fail

Spec == Init /\ [][Next]_vars

----------------------------------------------------------------------------
(* Vocabulary of the properties *)

messages == data.messages

\* A string of whitespace only (the empty string included).
Blank(s) == \A i \in 1..Len(s) : s[i] \in WhiteSpace

IsPrefix(s, t) == Len(s) <= Len(t) /\ SubSeq(t, 1, Len(s)) = s

Count(role) == Cardinality({i \in 1..Len(messages) : messages[i].role = role})

Assistant(content) == [role |-> "assistant", content |-> content]

\* The handler that ran last was a request callback.
Settled == last.op \in {"success", "fail"}

\* The request that settled last failed: the transport failed, or the
\* response came with a status outside 2xx.
SettledByFailure ==
    \/ last.op = "fail"
    \/ last.op = "success" /\ last.res.statusCode \notin 200..299

\* The request that settled last got a response whose body has an answer.
SettledByAnswer ==
    /\ last.op = "success"
    /\ last.res.statusCode \in 200..299
    /\ last.res.data.type = "object"
    /\ last.res.data.answer.type = "string"

\* Message i is the user message of request id.
IsQuestionOf(i, id) == origin[i] = id /\ messages[i].role = "user"

----------------------------------------------------------------------------
(* Properties *)

\* C1: sendMsg with a draft that is empty or whitespace only changes nothing:
\* not the messages, not the draft, not user_id or session_id, and it makes
\* no request.
C1_BlankSendIsNoOp ==
    [][(last'.op = "sendMsg" /\ Blank(data.input))
        => UNCHANGED <<data, inflight, issued, origin, storage, threw>>]_vars

\* A sendMsg has just run on a draft of whitespace, which it left in place,
\* with an earlier request still in flight.
C1_Witness ==
    /\ last.op = "sendMsg"
    /\ data.input = <<" ">>
    /\ inflight # {}

\* C2: sendMsg with a draft that is not blank appends the one message
\* {user, the draft untrimmed} and empties the draft, in the step of the call
\* itself: its request and every earlier one are still in flight after it.
C2_SendAppendsAndClears ==
    [][(last'.op = "sendMsg" /\ ~Blank(data.input))
        => /\ data'.messages =
                  Append(messages, [role |-> "user", content |-> Str(data.input)])
           /\ data'.input = <<>>
           /\ inflight \subseteq inflight'
           /\ Cardinality(inflight' \ inflight) = 1]_vars

\* A padded draft has just been sent: it is the last message, untrimmed, the
\* draft is empty and the request is in flight.
C2_Witness ==
    /\ last.op = "sendMsg"
    /\ data.input = <<>>
    /\ messages # <<>>
    /\ messages[Len(messages)] =
           [role |-> "user", content |-> Str(<<" ", "a", " ">>)]
    /\ \E c \in inflight : c.id = issued
\* C3 (state part): the requests made are as many as the user messages, and
\* each request in flight carries the content of its own user message as the
\* question, with the page's user_id and session_id.
C3_Requests ==
    /\ issued = Count("user")
    /\ \A c, d \in inflight : c.id = d.id => c = d
    /\ \A c \in inflight :
          \E i \in 1..Len(messages) :
             /\ IsQuestionOf(i, c.id)
             /\ c.request = [question |-> messages[i].content.val,
                             user_id |-> data.user_id,
                             session_id |-> data.session_id]

\* C3 (step part): a sendMsg that is not a no-op makes exactly one request,
\* whose question is the draft as it was; a callback makes none.
C3_Step ==
    /\ (last'.op = "sendMsg" /\ ~Blank(data.input))
          => /\ issued' = issued + 1
             /\ \E c \in inflight' \ inflight :
                   /\ inflight' = inflight \cup {c}
                   /\ c.request.question = data.input
    /\ last'.op \in {"success", "fail"}
          => /\ issued' = issued
             /\ inflight' \subseteq inflight
             /\ Cardinality(inflight') = Cardinality(inflight) - 1

\* C3: every sendMsg that is not a no-op makes exactly one request, with the
\* payload {question: the draft before it was cleared, user_id, session_id}
\* of the page; no request is made again once it has settled, so the requests
\* made are as many as the user messages.
C3_OneRequestPerSend == []C3_Requests /\ [][C3_Step]_vars

\* Two padded drafts were sent, the first request has settled by a failure
\* and the second is in flight with its question untrimmed.
C3_Witness ==
    /\ issued = 2
    /\ Count("user") = 2
    /\ last.op = "fail"
    /\ \E c \in inflight : c.request.question = <<" ", "a", " ">>
    /\ data.user_id \in UserIds

\* C4: whenever a request has just settled by a failure (the transport
\* failed, or the status is not a success), the last message is the
\* assistant's fixed failure text for that request and no callback has thrown.
C4_FailureGivesFixedMessage ==
    SettledByFailure
        => /\ messages # <<>>
           /\ messages[Len(messages)] = Assistant(Str(FailText))
           /\ origin[Len(origin)] = last.id
           /\ "success" \notin threw

\* C5: a response with an answer X makes the callback append the one message
\* {assistant, X} to the messages as they are then, after the user message of
\* the request.
C5_AnswerAppended ==
    [][SettledByAnswer'
        => /\ data'.messages =
                  Append(messages, Assistant(last'.res.data.answer))
           /\ \E i \in 1..Len(messages) :
                 /\ origin[i] = last'.id
                 /\ messages[i].role = "user"
                 /\ origin' = Append(origin, last'.id)]_vars

\* The answer "X" has just been appended after the user message "a".
C5_Witness ==
    /\ SettledByAnswer
    /\ messages = << [role |-> "user", content |-> Str(<<"a">>)],
                     Assistant(Str(<<"X">>)) >>

\* C6 (state part): the storage was written at most once, and an onLoad that
\* returned left the page with the stored user_id.
C6_Stored ==
    /\ Len(writes) <= 1
    /\ (phase = "ready" /\ "onLoad" \notin threw)
          => data.user_id = storage /\ storage \in UserIds

\* C6: the user_id is generated and stored only by the first onLoad that finds
\* the key absent; once stored it is never replaced nor written again, and
\* every later onLoad gives the page the stored value.
C6_UserIdStable ==
    []C6_Stored /\ [][storage # "" => UNCHANGED <<storage, writes>>]_vars

\* The second page instance has loaded the user_id the first one stored.
C6_Witness ==
    /\ reloaded
    /\ last.op = "onLoad"
    /\ "onLoad" \notin threw
    /\ writes = <<FALSE>>
    /\ data.user_id = storage

\* C7: once onLoad is over, the page has a user_id and a session_id, and
\* onLoad did not end by an exception.
C7_InitCompletes ==
    phase = "ready"
        => /\ data.user_id # ""
           /\ data.session_id # ""
           /\ "onLoad" \notin threw

\* C8: the user messages are as many as the assistant messages and the
\* requests in flight together.
C8_Balanced == Count("user") = Count("assistant") + Cardinality(inflight)

\* C9: a draft that is not blank can be sent whatever requests are in flight,
\* and each reply goes to the end of the messages when it arrives, whatever
\* the order the requests were made in.
C9_NotSerialized ==
    /\ (phase = "ready" /\ ~Blank(data.input) /\ issued < MaxSends)
          => ENABLED SendMsg
    /\ (Settled /\ last.res.data.type # "null")
          => origin # <<>> /\ origin[Len(origin)] = last.id

\* The reply to the second question stands before the reply to the first.
C9_Witness ==
    /\ origin = <<1, 2, 2, 1>>
    /\ [i \in 1..4 |-> messages[i].role]
           = <<"user", "user", "assistant", "assistant">>

\* C10: within one page instance every step leaves the messages there were
\* as a prefix of the messages there are.
C10_AppendOnly ==
    [][last'.op # "Page" => IsPrefix(messages, data'.messages)]_vars

\* A reply has been appended after the message of a later sendMsg.
C10_Witness ==
    /\ Settled
    /\ origin = <<1, 2, 1>>
    /\ Len(messages) = 3
====
